---- MODULE Spec2Model ----
(***************************************************************************)
(* A model of build.py, the package build/install orchestrator for a       *)
(* hierarchical environment-module tree.                                    *)
(*                                                                         *)
(* Conventions.                                                             *)
(*  - A Python string that the program concatenates (a package name, a     *)
(*    version, a directory name) is a sequence of tokens; "+" on strings   *)
(*    is \o, so 'gcc' + '-' + '4' is <<"gcc", "-", "4">>.  A path is a     *)
(*    sequence of such components (os.path.join).                           *)
(*  - A Python dict whose keys are looked up one by one (ext_deps,         *)
(*    rext_deps) is an association list in insertion order.                 *)
(*  - A raw dependency declaration 'name', 'name/version', '+name' is the  *)
(*    record of its optional marker and of its '/'-separated parts.        *)
(*  - None is the empty string where a package is expected and the empty   *)
(*    sequence where a dict is expected.                                    *)
(***************************************************************************)
EXTENDS Integers, Sequences, FiniteSets, TLC

VARIABLES
    catalog,     \* index of the package directory on disk (packages/*/*.json)
    prefixes,    \* the prefix tree: the set of existing install prefixes
    modulefiles, \* the module-file tree: path -> content
    status,      \* per process: off, idle, running, done, failed, crashed
    exitcode,    \* per process: exit status of its last run
    stack,       \* per process: the install_version activation records
    todo,        \* per process: the (package, version) calls install() still makes
    target,      \* per process: --targets of the current run
    log,         \* per process: the build shells of the current run, in order
    ndeps,       \* per process: recursive dependency installs of the current run
    prev,        \* per process: the previous run (target, status, log), if any
    nruns,       \* number of runs started so far
    fs0,         \* per process: the two trees when the current run started
    fn_in,       \* input of a function applied in isolation
    fn_out       \* its result, once applied

vars == <<catalog, prefixes, modulefiles, status, exitcode, stack, todo, target,
          log, ndeps, prev, nruns, fs0, fn_in, fn_out>>

(***************************************************************************)
(* Bounds of the model.                                                     *)
(***************************************************************************)
MaxRuns == 2
MaxDecls == 3
MaxExit == 1
MaxSteps == 3
\* the deepest nesting of install_version calls the interpreter's stack holds
MaxDepth == 4

Procs == {1, 2}

(***************************************************************************)
(* Program constants.                                                       *)
(***************************************************************************)
modules == <<"Compiler", "MPI", "Boost", "CUDA", "Python">>
architectures == <<"x86_64">>
basepath == <<"opt">>
DASH == <<"-">>

ModuleSet == {modules[i] : i \in 1..Len(modules)}

(***************************************************************************)
(* Sequence helpers.                                                        *)
(***************************************************************************)
Range(s) == {s[i] : i \in 1..Len(s)}

RECURSIVE Flatten(_)
Flatten(ss) == IF ss = <<>> THEN <<>> ELSE Head(ss) \o Flatten(Tail(ss))

Text(atom) == <<atom>>

(***************************************************************************)
(* dict operations on association lists                                     *)
(***************************************************************************)
DictHas(d, k) == \E i \in 1..Len(d) : d[i].key = k

DictGet(d, k) == d[CHOOSE i \in 1..Len(d) : d[i].key = k].val

DictSet(d, k, v) ==
    IF DictHas(d, k)
    THEN [i \in 1..Len(d) |-> IF d[i].key = k THEN [key |-> k, val |-> v] ELSE d[i]]
    ELSE Append(d, [key |-> k, val |-> v])

DictKeys(d) == {d[i].key : i \in 1..Len(d)}

(***************************************************************************)
(* Package descriptors (the parsed json files) and the directories they    *)
(* are loaded from.                                                         *)
(***************************************************************************)
Dep(s) == [opt |-> FALSE, parts |-> s]
Opt(s) == [opt |-> TRUE, parts |-> s]

Json(name, versions, dependencies, build) ==
    [name |-> name, versions |-> versions, dependencies |-> dependencies,
     build |-> build]

V(v) == <<v, "url">>

EmptyAxes ==
    <<[module |-> "MPI", names |-> <<>>], [module |-> "Boost", names |-> <<>>],
      [module |-> "CUDA", names |-> <<>>], [module |-> "Python", names |-> <<>>]>>

\* A and B: B has a mandatory ordinary dependency on A.
CatAB ==
    [dirs |-> <<[module |-> "Compiler", names |-> <<>>]>> \o EmptyAxes
              \o <<[module |-> "Libs", names |-> <<"A", "B">>]>>,
     pkg |-> [n \in {"A", "B"} |->
        IF n = "A" THEN Json("A", <<V("1.0"), <<"1.1">>>>, <<>>, <<"make">>)
        ELSE Json("B", <<V("2.0")>>, <<Dep(<<"A", "1.0">>)>>, <<"configure", "make">>)],
     targets |-> {<<"B">>, <<"A">>, <<"zzz">>}]

\* C declares the Compiler axis; two compilers are registered.
CatC ==
    [dirs |-> <<[module |-> "Compiler", names |-> <<"gcc", "clang">>]>> \o EmptyAxes
              \o <<[module |-> "Libs", names |-> <<"C">>]>>,
     pkg |-> [n \in {"gcc", "clang", "C"} |->
        CASE n = "gcc" -> Json("gcc", <<V("4"), V("5")>>, <<>>, <<"make">>)
          [] n = "clang" -> Json("clang", <<V("3")>>, <<>>, <<"make">>)
          [] OTHER -> Json("C", <<V("1.0")>>, <<Dep(<<"Compiler">>)>>, <<"make">>)],
     targets |-> {<<"C", "1.0">>}]

\* E declares two optional axes.
CatE ==
    [dirs |-> <<[module |-> "Compiler", names |-> <<>>],
                [module |-> "MPI", names |-> <<"ompi">>],
                [module |-> "Boost", names |-> <<>>],
                [module |-> "CUDA", names |-> <<"cuda">>],
                [module |-> "Python", names |-> <<>>],
                [module |-> "Libs", names |-> <<"E">>]>>,
     pkg |-> [n \in {"ompi", "cuda", "E"} |->
        CASE n = "ompi" -> Json("ompi", <<V("1")>>, <<>>, <<"make">>)
          [] n = "cuda" -> Json("cuda", <<V("7")>>, <<>>, <<"make">>)
          [] OTHER -> Json("E", <<V("1")>>,
                           <<Opt(<<"MPI">>), Opt(<<"CUDA">>)>>, <<"make">>)],
     targets |-> {<<"E">>}]

\* F has a mandatory ordinary dependency on A and an optional one on D.
CatF ==
    [dirs |-> <<[module |-> "Compiler", names |-> <<>>]>> \o EmptyAxes
              \o <<[module |-> "Libs", names |-> <<"A", "D", "F">>]>>,
     pkg |-> [n \in {"A", "D", "F"} |->
        CASE n = "A" -> Json("A", <<V("1.0")>>, <<>>, <<"make">>)
          [] n = "D" -> Json("D", <<V("1")>>, <<>>, <<"make">>)
          [] OTHER -> Json("F", <<V("1")>>,
                           <<Dep(<<"A", "1.0">>), Opt(<<"D", "1">>)>>, <<"make">>)],
     targets |-> {<<"F">>}]

\* H declares the Boost axis and no CUDA; W names A without a version; G
\* names a compiler with a version.
CatH ==
    [dirs |-> <<[module |-> "Compiler", names |-> <<"gcc">>],
                [module |-> "MPI", names |-> <<>>],
                [module |-> "Boost", names |-> <<"boost">>],
                [module |-> "CUDA", names |-> <<>>],
                [module |-> "Python", names |-> <<>>],
                [module |-> "Libs", names |-> <<"A", "H", "W", "G", "X">>]>>,
     pkg |-> [n \in {"gcc", "boost", "A", "H", "W", "G", "X"} |->
        CASE n = "gcc" -> Json("gcc", <<V("4")>>, <<>>, <<"make">>)
          [] n = "boost" -> Json("boost", <<V("1")>>, <<>>, <<"make">>)
          [] n = "A" -> Json("A", <<V("1.0")>>, <<>>, <<"make">>)
          [] n = "H" -> Json("H", <<V("1")>>, <<Dep(<<"Boost">>)>>, <<"make">>)
          [] n = "W" -> Json("W", <<V("1")>>, <<Dep(<<"A">>)>>, <<"make">>)
          [] n = "X" -> Json("X", <<V("1")>>, <<Opt(<<"A">>)>>, <<"make">>)
          [] OTHER -> Json("G", <<V("1")>>, <<Dep(<<"gcc", "4">>)>>, <<"make">>)],
     targets |-> {<<"H">>, <<"W">>, <<"G">>, <<"X">>}]

\* The registry the resolver is applied to in isolation: T is the package
\* whose declarations are drawn.
CatT(decls) ==
    [dirs |-> <<[module |-> "Compiler", names |-> <<"gcc", "clang">>],
                [module |-> "MPI", names |-> <<"ompi">>],
                [module |-> "Boost", names |-> <<"boost">>],
                [module |-> "CUDA", names |-> <<"cuda">>],
                [module |-> "Python", names |-> <<"py">>],
                [module |-> "Libs", names |-> <<"A", "D", "T">>]>>,
     pkg |-> [n \in {"gcc", "clang", "ompi", "boost", "cuda", "py", "A", "D", "T"} |->
        CASE n = "gcc" -> Json("gcc", <<V("4"), V("5")>>, <<>>, <<"make">>)
          [] n = "clang" -> Json("clang", <<V("3")>>, <<>>, <<"make">>)
          [] n = "ompi" -> Json("ompi", <<V("1")>>, <<>>, <<"make">>)
          [] n = "cuda" -> Json("cuda", <<V("7")>>, <<>>, <<"make">>)
          [] n = "boost" -> Json("boost", <<V("1")>>, <<>>, <<"make">>)
          [] n = "py" -> Json("py", <<V("2")>>, <<>>, <<"make">>)
          [] n = "A" -> Json("A", <<V("1.0")>>, <<>>, <<"make">>)
          [] n = "D" -> Json("D", <<V("1")>>, <<>>, <<"make">>)
          [] OTHER -> Json("T", <<V("1")>>, decls, <<"make">>)],
     targets |-> {<<"T">>}]

\* P declares the Compiler axis and a dependency L that declares it too; the
\* compilers have no source to download and no build step.
CatP ==
    [dirs |-> <<[module |-> "Compiler", names |-> <<"gcc", "clang">>]>> \o EmptyAxes
              \o <<[module |-> "Libs", names |-> <<"L", "P">>]>>,
     pkg |-> [n \in {"gcc", "clang", "L", "P"} |->
        CASE n = "gcc" -> Json("gcc", <<<<"4">>>>, <<>>, <<>>)
          [] n = "clang" -> Json("clang", <<<<"3">>>>, <<>>, <<>>)
          [] n = "L" -> Json("L", <<V("1")>>, <<Dep(<<"Compiler">>)>>, <<"make">>)
          [] OTHER -> Json("P", <<V("2")>>,
                           <<Dep(<<"Compiler">>), Dep(<<"L", "1">>)>>, <<"make">>)],
     targets |-> {<<"P">>}]

\* K declares the CUDA and the Boost axis and a module path PATH -> sbin;
\* neither axis package has a source to download or a build step.
CatK ==
    [dirs |-> <<[module |-> "Compiler", names |-> <<>>],
                [module |-> "MPI", names |-> <<>>],
                [module |-> "Boost", names |-> <<"boost">>],
                [module |-> "CUDA", names |-> <<"cuda">>],
                [module |-> "Python", names |-> <<>>],
                [module |-> "Libs", names |-> <<"K">>]>>,
     pkg |-> [n \in {"boost", "cuda", "K"} |->
        CASE n = "boost" -> Json("boost", <<<<"1">>>>, <<>>, <<>>)
          [] n = "cuda" -> Json("cuda", <<<<"7">>>>, <<>>, <<>>)
          [] OTHER -> Json("K", <<V("3")>>, <<Dep(<<"CUDA">>), Dep(<<"Boost">>)>>,
                           <<"make">>)
                      @@ [modulefile |->
                            [paths |-> <<[key |-> "PATH", val |-> <<Text("sbin")>>]>>]]],
     targets |-> {<<"K">>}]

\* A registry in which the name intel is registered under two axes:
\* packages/Compiler/intel.json and packages/MPI/intel.json.
CatI ==
    [dirs |-> <<[module |-> "Compiler", names |-> <<"intel", "gcc">>],
                [module |-> "MPI", names |-> <<"intel", "ompi">>],
                [module |-> "Boost", names |-> <<"boost">>],
                [module |-> "CUDA", names |-> <<"cuda">>],
                [module |-> "Python", names |-> <<"py">>],
                [module |-> "Libs", names |-> <<"T">>]>>,
     pkg |-> [n \in {"intel", "gcc", "ompi", "boost", "cuda", "py", "T"} |->
        CASE n = "intel" -> Json("intel", <<V("15")>>, <<>>, <<"make">>)
          [] n = "gcc" -> Json("gcc", <<V("4")>>, <<>>, <<"make">>)
          [] n = "ompi" -> Json("ompi", <<V("1")>>, <<>>, <<"make">>)
          [] n = "cuda" -> Json("cuda", <<V("7")>>, <<>>, <<"make">>)
          [] n = "boost" -> Json("boost", <<V("1")>>, <<>>, <<"make">>)
          [] n = "py" -> Json("py", <<V("2")>>, <<>>, <<"make">>)
          [] OTHER -> Json("T", <<V("1")>>, <<>>, <<"make">>)],
     targets |-> {<<"T">>}]

\* gcc is registered under Compiler and declares the Compiler axis; M and N
\* name each other.
CatR ==
    [dirs |-> <<[module |-> "Compiler", names |-> <<"gcc">>]>> \o EmptyAxes
              \o <<[module |-> "Libs", names |-> <<"M", "N">>]>>,
     pkg |-> [n \in {"gcc", "M", "N"} |->
        CASE n = "gcc" -> Json("gcc", <<V("4")>>, <<Dep(<<"Compiler">>)>>, <<"make">>)
          [] n = "M" -> Json("M", <<V("1")>>, <<Dep(<<"N", "1">>)>>, <<"make">>)
          [] OTHER -> Json("N", <<V("1")>>, <<Dep(<<"M", "1">>)>>, <<"make">>)],
     targets |-> {<<"gcc">>, <<"M">>}]

PackageFiles == <<CatAB, CatC, CatE, CatF, CatH, CatP, CatK, CatR>>

(***************************************************************************)
(* Package methods                                                          *)
(***************************************************************************)
\* Package.__nonzero__: the invalid package is the empty string
IsPackage(p) == p # ""

\* Package.versions
versions(cat, p) ==
    [i \in 1..Len(cat.pkg[p].versions) |-> Head(cat.pkg[p].versions[i])]

\* Package.has_version
has_version(cat, p, version) ==
    \/ version = "*"
    \/ \E i \in 1..Len(cat.pkg[p].versions) : Head(cat.pkg[p].versions[i]) = version

\* Package.name
name(cat, p) == cat.pkg[p].name

\* packages[module], in iteration order
Registered(cat, module) ==
    Flatten([i \in 1..Len(cat.dirs) |->
                IF cat.dirs[i].module = module THEN cat.dirs[i].names ELSE <<>>])

(***************************************************************************)
(* find_package                                                             *)
(***************************************************************************)
NotFound == [module |-> "", package |-> "", version |-> "*"]

\* variant: a registered name is found whatever version is asked for
find_package_any(cat, parts) ==
    LET version == IF Len(parts) = 2 THEN parts[2] ELSE "*"
        hits == {i \in 1..Len(cat.dirs) : parts[1] \in Range(cat.dirs[i].names)}
    IN  IF hits = {} THEN NotFound
        ELSE LET i == CHOOSE j \in hits : \A k \in hits : j <= k
             IN  [module |-> cat.dirs[i].module, package |-> parts[1],
                  version |-> version]

find_package(cat, parts) ==
    LET version == IF Len(parts) = 2 THEN parts[2] ELSE "*"
        hit(i) == /\ parts[1] \in Range(cat.dirs[i].names)
                  /\ has_version(cat, parts[1], version)
        hits == {i \in 1..Len(cat.dirs) : hit(i)}
    IN  IF hits = {} THEN NotFound
        ELSE LET i == CHOOSE j \in hits : \A k \in hits : j <= k
             IN  [module |-> cat.dirs[i].module, package |-> parts[1],
                  version |-> version]

(***************************************************************************)
(* Package.resolve_dependencies                                             *)
(***************************************************************************)
Tuple(module, package, version) ==
    [module |-> module, package |-> package, version |-> version]

IsAxisDecl(d) == Len(d.parts) = 1 /\ d.parts[1] \in ModuleSet

\* every package registered under the axis becomes a candidate with '*'
AxisCandidates(cat, d) ==
    LET ns == Registered(cat, d.parts[1])
    IN  [i \in 1..Len(ns) |-> Tuple(d.parts[1], ns[i], "*")]

\* variant: only the first registered package of an axis becomes a candidate
module_deps_first(cat, decls) ==
    Flatten([i \in 1..Len(decls) |->
        IF IsAxisDecl(decls[i]) /\ ~decls[i].opt
        THEN SubSeq(AxisCandidates(cat, decls[i]), 1, 1) ELSE <<>>])

module_deps(cat, decls) ==
    Flatten([i \in 1..Len(decls) |->
        IF IsAxisDecl(decls[i]) /\ ~decls[i].opt
        THEN AxisCandidates(cat, decls[i]) ELSE <<>>])

optional_module_deps(cat, decls) ==
    Flatten([i \in 1..Len(decls) |->
        IF IsAxisDecl(decls[i]) /\ decls[i].opt
        THEN AxisCandidates(cat, decls[i]) ELSE <<>>])

\* ordinary declarations: looked up, dropped when the lookup finds nothing
OrdinaryDeps(cat, decls, optional) ==
    Flatten([i \in 1..Len(decls) |->
        IF ~IsAxisDecl(decls[i]) /\ decls[i].opt = optional
        THEN LET f == find_package(cat, decls[i].parts)
             IN  IF IsPackage(f.package) THEN <<f>> ELSE <<>>
        ELSE <<>>])

\* variant: a mandatory declaration is kept even when the lookup finds nothing
deps_unresolved(cat, decls) ==
    Flatten([i \in 1..Len(decls) |->
        IF ~IsAxisDecl(decls[i]) /\ ~decls[i].opt
        THEN <<find_package(cat, decls[i].parts)>> ELSE <<>>])

deps(cat, decls) == OrdinaryDeps(cat, decls, FALSE)

optional_deps(cat, decls) == OrdinaryDeps(cat, decls, TRUE)

\* variant: an optional dependency alone, without the mandatory ones
ddeps_alone(od, ds) == [i \in 1..Len(od) |-> <<od[i]>>]

ddeps(od, ds) == [i \in 1..Len(od) |-> <<od[i]>> \o ds]

res_deps(md, ds, dd) ==
    IF Len(md) = 0
    THEN <<ds>> \o dd
    ELSE Flatten([i \in 1..Len(md) |->
            <<<<md[i]>> \o ds>> \o [j \in 1..Len(dd) |-> <<md[i]>> \o dd[j]]])

res_deps_opt(omd, rd) ==
    Flatten([i \in 1..Len(omd) |-> [j \in 1..Len(rd) |-> <<omd[i]>> \o rd[j]]])

get_deps(cat, decls) ==
    LET rd == res_deps(module_deps(cat, decls), deps(cat, decls),
                       ddeps(optional_deps(cat, decls), deps(cat, decls)))
    IN  rd \o res_deps_opt(optional_module_deps(cat, decls), rd)

\* self.build_deps, as load_packages leaves it
build_deps(cat, p) == get_deps(cat, cat.pkg[p].dependencies)

(***************************************************************************)
(* Package.prefix, Package.is_installed                                     *)
(***************************************************************************)
\* deps[axis][0].name() + '-' + deps[axis][1][0]
AxisDir(cat, d, axis) ==
    Text(name(cat, DictGet(d, axis).p)) \o DASH \o Text(DictGet(d, axis).v[1])

PrefixAxes == <<"compiler", "mpi", "cuda", "python", "boost">>

\* variant: the axis directories in the insertion order of the mapping
prefix_insertion(cat, arch, self, version, d) ==
    <<basepath, Text(arch)>>
    \o [i \in 1..Len(d) |-> AxisDir(cat, d, d[i].key)]
    \o <<Text(name(cat, self)), Text(version)>>

prefix(cat, arch, self, version, d) ==
    <<basepath, Text(arch)>>
    \o Flatten([i \in 1..Len(PrefixAxes) |->
            IF DictHas(d, PrefixAxes[i]) THEN <<AxisDir(cat, d, PrefixAxes[i])>>
            ELSE <<>>])
    \o <<Text(name(cat, self)), Text(version)>>

\* variant: a prefix some process is installing into counts as installed
is_installed_locked(cat, arch, self, version, d) ==
    \/ prefix(cat, arch, self, version, d) \in prefixes
    \/ \E q \in Procs :
          \E i \in 1..Len(stack[q]) :
              /\ stack[q][i].pc \in {"deps", "build"}
              /\ prefix(cat, stack[q][i].arch, stack[q][i].self,
                        Head(stack[q][i].version), stack[q][i].rext)
                    = prefix(cat, arch, self, version, d)

\* variant: the existence of the prefix is never seen
is_installed_never(cat, arch, self, version, d) == FALSE

is_installed(cat, arch, self, version, d) ==
    prefix(cat, arch, self, version, d) \in prefixes

(***************************************************************************)
(* Package.get_deps_path, Package.base_modulefile, Package.write_modulefile *)
(***************************************************************************)
get_dir(cat, d, axis) == IF DictHas(d, axis) THEN AxisDir(cat, d, axis) ELSE <<>>

get_deps_path(cat, d) ==
    get_dir(cat, d, "compiler")
    \o Flatten([i \in 1..4 |->
          LET dir == get_dir(cat, d, <<"cuda", "mpi", "python", "boost">>[i])
          IN  IF dir # <<>> THEN DASH \o dir ELSE <<>>])

\* os.path.join(basepath, arch, 'modulefiles', deps_dir)
ModuleRoot(cat, arch, d) ==
    <<basepath, Text(arch), Text("modulefiles")>>
    \o (IF get_deps_path(cat, d) = <<>> THEN <<>> ELSE <<get_deps_path(cat, d)>>)

BaseModuleDir(cat, arch, self, d) ==
    ModuleRoot(cat, arch, d)
    \o (IF get_deps_path(cat, d) = <<>> THEN <<Text("Core")>> ELSE <<>>)
    \o <<Text(".base"), Text(name(cat, self))>>

BaseModule(cat, arch, self, d) ==
    BaseModuleDir(cat, arch, self, d) \o <<Text("generic.lua")>>

\* the second component base_modulefile returns: the directory of the pointers
PointerDir(cat, arch, self, d) ==
    ModuleRoot(cat, arch, d)
    \o (IF get_deps_path(cat, d) = <<>> THEN <<Text("Core")>> ELSE <<>>)
    \o <<Text(name(cat, self))>>

Pointer(cat, arch, self, version, d) ==
    PointerDir(cat, arch, self, d) \o <<Text(version) \o <<".lua">>>>

\* Package.module_path_vars: the 'paths' map of the descriptor, or {}
module_path_vars(cat, self) ==
    IF "modulefile" \in DOMAIN cat.pkg[self] THEN cat.pkg[self].modulefile.paths
    ELSE <<>>

\* the paths dictionary base_modulefile starts from
DefaultPaths(cat, self) ==
    <<[key |-> "PATH", val |-> <<Text("bin")>>],
      [key |-> "LD_LIBRARY_PATH", val |-> <<Text("lib"), Text("lib64")>>],
      [key |-> "MANPATH", val |-> <<Text("share/man")>>],
      [key |-> "INFOPATH", val |-> <<Text("share/info")>>],
      [key |-> "PKG_CONFIG_PATH", val |-> <<Text("lib/pkgconfig")>>],
      [key |-> "PYTHONPATH",
       val |-> <<Text("share/") \o Text(name(cat, self)) \o Text("/python")>>]>>

\* dict.update
RECURSIVE DictUpdate(_, _)
DictUpdate(d, u) ==
    IF u = <<>> THEN d
    ELSE DictUpdate(DictSet(d, Head(u).key, Head(u).val), Tail(u))

\* the guarded prepend_path blocks of the base module, as (variable, directory)
Prepends(cat, self) ==
    LET paths == DictUpdate(DefaultPaths(cat, self), module_path_vars(cat, self))
    IN  UNION {{<<paths[i].key, paths[i].val[j]>> : j \in 1..Len(paths[i].val)} :
               i \in 1..Len(paths)}

\* what base_modulefile writes when the base module does not exist
BaseContent(cat, arch, self, d, bdeps) ==
    [kind |-> "base",
     base |-> SubSeq(prefix(cat, arch, self, "nan", d), 1,
                     Len(prefix(cat, arch, self, "nan", d)) - 1),
     loads |-> [i \in 1..Len(bdeps) |->
                  <<name(cat, bdeps[i].package), bdeps[i].version>>],
     prepends |-> Prepends(cat, self),
     pkg |-> name(cat, self)]

\* variant: the base module is regenerated on every call
base_modulefile_rewrite(files, cat, arch, self, d, bdeps) ==
    [q \in DOMAIN files \cup {BaseModule(cat, arch, self, d)} |->
        IF q = BaseModule(cat, arch, self, d)
        THEN BaseContent(cat, arch, self, d, bdeps) ELSE files[q]]

base_modulefile(files, cat, arch, self, d, bdeps) ==
    IF BaseModule(cat, arch, self, d) \in DOMAIN files
    THEN files
    ELSE (BaseModule(cat, arch, self, d) :> BaseContent(cat, arch, self, d, bdeps))
         @@ files

write_modulefile(files, cat, arch, self, version, d, bdeps) ==
    LET f1 == base_modulefile(files, cat, arch, self, d, bdeps)
        ptr == Pointer(cat, arch, self, version, d)
    IN  IF ptr \in DOMAIN f1 THEN f1
        ELSE (ptr :> [kind |-> "link", to |-> BaseModule(cat, arch, self, d)]) @@ f1

(***************************************************************************)
(* Package.install_version: the activation record                           *)
(*                                                                         *)
(* An axis variable (compiler, mpi, boost, cuda, python) holds what         *)
(* extract_package or ext_deps gave: k = "tuple" is (package, versions),    *)
(* k = "list" is the one-element list [(package, [version])], whose [1]     *)
(* does not exist.                                                          *)
(***************************************************************************)
AxisKeys == {"compiler", "mpi", "boost", "cuda", "python"}

AxisKey(module) ==
    CASE module = "Compiler" -> "compiler"
      [] module = "MPI" -> "mpi"
      [] module = "Boost" -> "boost"
      [] module = "CUDA" -> "cuda"
      [] module = "Python" -> "python"
      [] OTHER -> ""

\* compiler = (None, ['*']) and the like
NoAxis == [k |-> "tuple", p |-> "", v |-> <<"*">>]

extract_package(cat, package, pversion) ==
    IF pversion = "*"
    THEN [k |-> "tuple", p |-> package, v |-> versions(cat, package)]
    ELSE [k |-> "list", p |-> package, v |-> <<pversion>>]

\* the version record [version, url, ...] of a version given as a string
LookupVersion(cat, self, version) ==
    LET vs == cat.pkg[self].versions
        hits == {i \in 1..Len(vs) : Head(vs[i]) = version}
    IN  IF hits = {} THEN <<version>>
        ELSE vs[CHOOSE i \in hits : \A j \in hits : i <= j]

NewFrame(self, version, ext) ==
    [self |-> self, version |-> version, ext |-> ext, rext |-> <<>>,
     ax |-> [a \in AxisKeys |-> NoAxis], ri |-> 1, bdeps |-> <<>>,
     pts |-> <<>>, pt |-> 1, pc |-> "res", di |-> 1, mods |-> <<>>]

\* variant: an axis of ext_deps is expanded like any other
RECURSIVE ApplyTuples_unpinned(_, _, _)
ApplyTuples_unpinned(cat, f, ts) ==
    IF ts = <<>> THEN f
    ELSE LET t == Head(ts)
             a == AxisKey(t.module)
         IN  IF a # ""
             THEN LET x == extract_package(cat, t.package, t.version)
                  IN  ApplyTuples_unpinned(cat,
                        [f EXCEPT !.ax[a] = x, !.rext = DictSet(f.rext, a, x)],
                        Tail(ts))
             ELSE ApplyTuples_unpinned(cat, [f EXCEPT !.bdeps = Append(f.bdeps, t)],
                                       Tail(ts))

\* the tuple loop of one Resolution: the axis variables, rext_deps and
\* build_deps it leaves
RECURSIVE ApplyTuples(_, _, _)
ApplyTuples(cat, f, ts) ==
    IF ts = <<>> THEN f
    ELSE LET t == Head(ts)
             a == AxisKey(t.module)
         IN  IF a # ""
             THEN LET x == IF DictHas(f.ext, a) THEN DictGet(f.ext, a)
                           ELSE extract_package(cat, t.package, t.version)
                  IN  ApplyTuples(cat,
                        [f EXCEPT !.ax[a] = x, !.rext = DictSet(f.rext, a, x)],
                        Tail(ts))
             ELSE ApplyTuples(cat, [f EXCEPT !.bdeps = Append(f.bdeps, t)], Tail(ts))

\* raise Exception("Build script doesn't support wildcard versions ...")
RaisesWildcard(ts) ==
    \E i \in 1..Len(ts) : AxisKey(ts[i].module) = "" /\ ts[i].version = "*"

LoopAxes == <<"boost", "cuda", "mpi", "python", "compiler">>

\* a loop header evaluates X[1] of a one-element list: IndexError
RaisesIndex(ax) ==
    \E i \in 1..Len(LoopAxes) :
        /\ ax[LoopAxes[i]].k = "list"
        /\ \A j \in 1..(i - 1) : Len(ax[LoopAxes[j]].v) > 0

RECURSIVE Product(_)
Product(lists) ==
    IF lists = <<>> THEN << <<>> >>
    ELSE LET rest == Product(Tail(lists))
         IN  Flatten([i \in 1..Len(Head(lists)) |->
                        [j \in 1..Len(rest) |-> <<Head(lists)[i]>> \o rest[j]]])

\* variant: only the first version of every axis is visited
Points_first(ax) ==
    Product([i \in 1..Len(LoopAxes) |-> SubSeq(ax[LoopAxes[i]].v, 1, 1)])

\* the concrete points the five nested loops visit, in order
Points(ax) == Product([i \in 1..Len(LoopAxes) |-> ax[LoopAxes[i]].v])

\* rext_deps at a point: every axis whose variable holds a package is set to
\* (package, [version])
RECURSIVE SetAxes(_, _, _, _)
SetAxes(rext, ax, point, i) ==
    IF i > Len(LoopAxes) THEN rext
    ELSE LET a == LoopAxes[i]
         IN  SetAxes(IF ax[a].p # ""
                     THEN DictSet(rext, a, [k |-> "tuple", p |-> ax[a].p,
                                            v |-> <<point[i]>>])
                     ELSE rext,
                     ax, point, i + 1)

RextAt(f) == SetAxes(f.rext, f.ax, f.pts[f.pt], 1)

PointVersion(f, a) ==
    f.pts[f.pt][CHOOSE i \in 1..Len(LoopAxes) : LoopAxes[i] = a]

\* the recursive installs of a point, in call order
CallAxes == <<"compiler", "python", "mpi", "cuda", "boost">>

CallModule(a) ==
    CASE a = "compiler" -> "Compiler"
      [] a = "python" -> "Python"
      [] a = "mpi" -> "MPI"
      [] a = "cuda" -> "CUDA"
      [] OTHER -> "Boost"

\* variant: no dependency is installed before the build
DepCalls_none(f) == <<>>

DepCalls(f) ==
    Flatten([i \in 1..Len(CallAxes) |->
        IF f.ax[CallAxes[i]].p # ""
        THEN <<[axis |-> CallAxes[i], package |-> f.ax[CallAxes[i]].p,
                version |-> PointVersion(f, CallAxes[i])]>>
        ELSE <<>>])
    \o [i \in 1..Len(f.bdeps) |->
          [axis |-> "", package |-> f.bdeps[i].package,
           version |-> f.bdeps[i].version]]

\* the package whose name the 'module load' line of a dependency uses
LoadNameOf(f, call) == IF call.axis = "boost" THEN f.ax["cuda"].p ELSE call.package

\* after a point: the next point, or the next Resolution
Advance(f) ==
    IF f.pt < Len(f.pts) THEN [f EXCEPT !.pt = f.pt + 1, !.pc = "point"]
    ELSE [f EXCEPT !.ri = f.ri + 1, !.pc = "res"]

(***************************************************************************)
(* The build shell                                                          *)
(***************************************************************************)
ExitCodes == 0..MaxExit

\* rcs[0] is the exit code of 'module list', rcs[i] that of step i if it runs
RECURSIVE RunSteps(_, _, _, _, _)
RunSteps(n, rcs, i, cur, executed) ==
    IF i > n THEN [executed |-> executed, ret |-> cur]
    ELSE IF cur # 0 THEN [executed |-> executed, ret |-> cur]
    ELSE RunSteps(n, rcs, i + 1, rcs[i], Append(executed, i))

\* variant: every step runs and the shell exits with the code of the last
ShellRun_all(steps, rcs) ==
    [executed |-> [i \in 1..Len(steps) |-> i], ret |-> rcs[Len(steps)]]

ShellRun(steps, rcs) == RunSteps(Len(steps), rcs, 1, rcs[0], <<>>)

\* variant: a failed build leaves its prefix behind
Rollback_none(pfx, path) == pfx

\* if os.path.exists(prefix): shutil.rmtree(prefix)
Rollback(pfx, path) == IF path \in pfx THEN pfx \ {path} ELSE pfx

(***************************************************************************)
(* install(basepath, targets, arch) and Package.install: the calls of      *)
(* install_version one run makes, in order                                  *)
(***************************************************************************)
Cat == PackageFiles[catalog]

\* --arch: "all" or one of architectures (any other value raises before
\* anything is installed)
ArchArgs == {"all", "x86_64"}

AllVersions(cat, arch, self) ==
    [i \in 1..Len(cat.pkg[self].versions) |->
        [arch |-> arch, self |-> self, version |-> cat.pkg[self].versions[i]]]

InstallTodo(cat, arch, tgt) ==
    IF tgt = <<"all">>
    THEN Flatten([i \in 1..Len(cat.dirs) |->
            Flatten([j \in 1..Len(cat.dirs[i].names) |->
                        AllVersions(cat, arch, cat.dirs[i].names[j])])])
    ELSE LET f == find_package(cat, tgt)
         IN  IF f.version # "*"
             THEN <<[arch |-> arch, self |-> f.package,
                     version |-> LookupVersion(cat, f.package, f.version)]>>
             ELSE AllVersions(cat, arch, f.package)

\* env in Package.install: os.environ with COLUMNS and BUILDIT set
InstallEnv ==
    <<[key |-> "HOME", val |-> Text("home")], [key |-> "COLUMNS", val |-> Text("80")],
      [key |-> "BUILDIT", val |-> <<"python", "build.py">>]>>

\* build_env = env.copy(); build_env['PACKAGE_VERSION'] = str(version[0])
EnterEnv(env, version) ==
    [env |-> env, build_env |-> DictSet(env, "PACKAGE_VERSION", Text(Head(version)))]

\* Package.build_dir
build_dir(cat, base, arch, d) ==
    base \o <<Text("build"), Text(arch)>>
    \o Flatten([i \in 1..Len(PrefixAxes) |->
            IF DictHas(d, PrefixAxes[i]) THEN <<AxisDir(cat, d, PrefixAxes[i])>>
            ELSE <<>>])

\* build_env as the build shell gets it: SRC_DIR<i>, BUILD_DIR, PACKAGE_PREFIX
ShellEnv(cat, f) ==
    LET source_path == <<Text("source"), Text(f.self), Text(Head(f.version))>>
        src == [i \in 1..(Len(f.version) - 1) |->
                  [key |-> "SRC_DIR" \o ToString(i - 1),
                   val |-> source_path \o <<Text(f.version[i + 1])>>]]
        e1 == DictUpdate(f.build_env, src)
        e2 == DictSet(e1, "BUILD_DIR", build_dir(cat, source_path, f.arch, f.rext))
    IN  DictSet(e2, "PACKAGE_PREFIX",
                prefix(cat, f.arch, f.self, Head(f.version), f.rext))

TopFrame(item) ==
    NewFrame(item.self, item.version, <<>>) @@ [arch |-> item.arch]
    @@ EnterEnv(InstallEnv, item.version)

Top(p) == stack[p][Len(stack[p])]

Running(p, pc) == status[p] = "running" /\ stack[p] # <<>> /\ Top(p).pc = pc

\* the process ends: exit(code), an uncaught exception, or the end of main()
Finish(p, st, code) ==
    /\ status' = [status EXCEPT ![p] = st]
    /\ exitcode' = [exitcode EXCEPT ![p] = code]
    /\ stack' = [stack EXCEPT ![p] = <<>>]
    /\ todo' = [todo EXCEPT ![p] = <<>>]

Raise(p) == Finish(p, "crashed", 1)

\* the nesting of install_version calls exhausts the interpreter's stack
Overflow(p) == Finish(p, "overflow", 1)

SetTop(p, f) ==
    /\ stack' = [stack EXCEPT ![p] = [@ EXCEPT ![Len(@)] = f]]
    /\ UNCHANGED <<status, exitcode, todo>>

\* install_version returned to install(): the next call, or the end of the run
NextCall(p, items) ==
    IF items = <<>> THEN Finish(p, "done", 0)
    ELSE /\ stack' = [stack EXCEPT ![p] = <<TopFrame(Head(items))>>]
         /\ todo' = [todo EXCEPT ![p] = Tail(items)]
         /\ status' = [status EXCEPT ![p] = "running"]
         /\ UNCHANGED exitcode

\* main() with --install: load_packages, then install(basepath, targets, arch)
Main(p) ==
    /\ status[p] \notin {"off", "running"}
    /\ nruns < MaxRuns
    /\ \E tgt \in Cat.targets, arch \in ArchArgs :
        /\ nruns' = nruns + 1
        /\ target' = [target EXCEPT ![p] = tgt]
        /\ prev' = [prev EXCEPT ![p] =
                      IF status[p] = "idle" THEN <<>>
                      ELSE <<[target |-> target[p], status |-> status[p],
                              log |-> log[p]]>>]
        /\ log' = [log EXCEPT ![p] = <<>>]
        /\ ndeps' = [ndeps EXCEPT ![p] = 0]
        /\ fs0' = [fs0 EXCEPT ![p] = [prefixes |-> prefixes,
                                       modulefiles |-> modulefiles]]
        /\ IF arch # "all" /\ arch \notin Range(architectures)
           THEN Raise(p)
           ELSE IF tgt # <<"all">> /\ ~IsPackage(find_package(Cat, tgt).package)
           THEN Finish(p, "failed", 1)
           ELSE NextCall(p, Flatten([i \in 1..Len(architectures) |->
                                InstallTodo(Cat, architectures[i], tgt)]))
    /\ UNCHANGED <<catalog, prefixes, modulefiles, fn_in, fn_out>>

(***************************************************************************)
(* Package.install_version, step by step                                    *)
(***************************************************************************)
\* for deps in self.build_deps: the tuple loop and the loop headers
ResolutionFrame(g, pts) ==
    IF pts = <<>> THEN [g EXCEPT !.ri = g.ri + 1, !.pc = "res"]
    ELSE [g EXCEPT !.pts = pts, !.pt = 1, !.pc = "point"]

ProcessResolution(p) ==
    /\ Running(p, "res")
    /\ Top(p).ri <= Len(build_deps(Cat, Top(p).self))
    /\ \E ts \in {build_deps(Cat, Top(p).self)[Top(p).ri]} :
       \E g \in {ApplyTuples(Cat, [Top(p) EXCEPT !.bdeps = <<>>], ts)} :
       \E pts \in {Points(g.ax)} :
           IF RaisesWildcard(ts) THEN Raise(p)
           ELSE IF RaisesIndex(g.ax) THEN Raise(p)
           ELSE SetTop(p, ResolutionFrame(g, pts))
    /\ UNCHANGED <<catalog, prefixes, modulefiles, target, log, ndeps, prev, nruns,
                   fs0, fn_in, fn_out>>

\* variant: only the first Resolution looks at the prefix
CheckInstalled_first(p) ==
    /\ Running(p, "point")
    /\ LET f == [Top(p) EXCEPT !.rext = RextAt(Top(p)), !.mods = <<>>, !.di = 1]
       IN  IF f.ri = 1 /\ is_installed(Cat, f.arch, f.self, Head(f.version), f.rext)
           THEN SetTop(p, Advance(f))
           ELSE SetTop(p, [f EXCEPT !.pc = IF DepCalls(f) = <<>> THEN "build"
                                            ELSE "deps"])
    /\ UNCHANGED <<catalog, prefixes, modulefiles, target, log, ndeps, prev, nruns,
                   fs0, fn_in, fn_out>>

\* the innermost loop body up to the is_installed check
CheckInstalled(p) ==
    /\ Running(p, "point")
    /\ LET f == [Top(p) EXCEPT !.rext = RextAt(Top(p)), !.mods = <<>>, !.di = 1]
       IN  IF is_installed(Cat, f.arch, f.self, Head(f.version), f.rext)
           THEN SetTop(p, Advance(f))
           ELSE SetTop(p, [f EXCEPT !.pc = IF DepCalls(f) = <<>> THEN "build"
                                            ELSE "deps"])
    /\ UNCHANGED <<catalog, prefixes, modulefiles, target, log, ndeps, prev, nruns,
                   fs0, fn_in, fn_out>>

\* variant: the dependency is handed build_env instead of env
CallDep_shared(p) ==
    /\ Running(p, "deps")
    /\ LET f == Top(p)
           call == DepCalls(f)[f.di]
       IN  IF Len(stack[p]) >= MaxDepth THEN Overflow(p)
           ELSE /\ stack' = [stack EXCEPT ![p] =
                      Append(@, NewFrame(call.package,
                                         LookupVersion(Cat, call.package, call.version),
                                         f.rext)
                                @@ [arch |-> f.arch]
                                @@ EnterEnv(f.build_env,
                                            LookupVersion(Cat, call.package,
                                                          call.version)))]
                /\ UNCHANGED <<status, exitcode, todo>>
    /\ ndeps' = [ndeps EXCEPT ![p] = @ + 1]
    /\ UNCHANGED <<catalog, prefixes, modulefiles, target, log, prev, nruns, fs0,
                   fn_in, fn_out>>

\* X[0].install_version(basepath, arch, module, version, env, rext_deps)
CallDep(p) ==
    /\ Running(p, "deps")
    /\ LET f == Top(p)
           call == DepCalls(f)[f.di]
       IN  IF Len(stack[p]) >= MaxDepth THEN Overflow(p)
           ELSE /\ stack' = [stack EXCEPT ![p] =
                      Append(@, NewFrame(call.package,
                                         LookupVersion(Cat, call.package, call.version),
                                         f.rext)
                                @@ [arch |-> f.arch]
                                @@ EnterEnv(f.env,
                                            LookupVersion(Cat, call.package,
                                                          call.version)))]
                /\ UNCHANGED <<status, exitcode, todo>>
    /\ ndeps' = [ndeps EXCEPT ![p] = @ + 1]
    /\ UNCHANGED <<catalog, prefixes, modulefiles, target, log, prev, nruns, fs0,
                   fn_in, fn_out>>

\* the caller after a dependency returned: build_deps_modules += 'module load'
AfterDep(f) ==
    LET call == DepCalls(f)[f.di]
        line == <<name(Cat, LoadNameOf(f, call)), call.version>>
    IN  [f EXCEPT !.mods = Append(f.mods, line), !.di = f.di + 1,
                  !.pc = IF f.di = Len(DepCalls(f)) THEN "build" ELSE "deps"]

\* install_version returns: to the caller, or to install()
Return(p) ==
    /\ Running(p, "res")
    /\ Top(p).ri > Len(build_deps(Cat, Top(p).self))
    /\ IF Len(stack[p]) = 1 THEN NextCall(p, todo[p])
       ELSE LET f == stack[p][Len(stack[p]) - 1]
            IN  IF LoadNameOf(f, DepCalls(f)[f.di]) = "" THEN Raise(p)
                ELSE /\ stack' = [stack EXCEPT ![p] =
                            Append(SubSeq(@, 1, Len(@) - 2), AfterDep(f))]
                     /\ UNCHANGED <<status, exitcode, todo>>
    /\ UNCHANGED <<catalog, prefixes, modulefiles, target, log, ndeps, prev, nruns,
                   fs0, fn_in, fn_out>>

\* one build shell, as the log keeps it
Event(p, f, run, created) ==
    [key |-> prefix(Cat, f.arch, f.self, Head(f.version), f.rext),
     depth |-> Len(stack[p]), pending |-> Len(todo[p]),
     self |-> f.self, version |-> Head(f.version), rext |-> f.rext, ri |-> f.ri,
     mods |-> f.mods, executed |-> run.executed, ret |-> run.ret,
     created |-> created, env |-> ShellEnv(Cat, f)]

\* variant: a failed build is skipped and the loops go on
BuildFailed_continue(p, ev, pfx) ==
    /\ prefixes' = Rollback(pfx, ev.key)
    /\ SetTop(p, Advance(Top(p)))
    /\ UNCHANGED modulefiles

\* ret != 0: the prefix is removed and the run ends with exit(1)
BuildFailed(p, ev, pfx) ==
    /\ prefixes' = Rollback(pfx, ev.key)
    /\ Finish(p, "failed", 1)
    /\ UNCHANGED modulefiles

\* ret = 0: write_modulefile, then the next point
BuildDone(p, ev, pfx) ==
    /\ prefixes' = pfx
    /\ modulefiles' = write_modulefile(modulefiles, Cat, Top(p).arch, ev.self,
                                       ev.version, ev.rext, Top(p).bdeps)
    /\ SetTop(p, Advance([Top(p) EXCEPT !.build_env = ev.env]))

\* download and extract, the build shell, and what follows shell.wait()
Build(p) ==
    /\ Running(p, "build")
    /\ \E fetched \in IF Tail(Top(p).version) = <<>> THEN {TRUE} ELSE BOOLEAN :
        IF ~fetched
        THEN Raise(p) /\ UNCHANGED <<prefixes, modulefiles, log>>
        ELSE \E rcs \in [0..Len(Cat.pkg[Top(p).self].build) -> ExitCodes] :
             LET run == ShellRun(Cat.pkg[Top(p).self].build, rcs)
             IN  \E created \in IF run.executed = <<>> THEN {FALSE} ELSE BOOLEAN :
                 LET ev == Event(p, Top(p), run, created)
                     pfx == IF created THEN prefixes \cup {ev.key} ELSE prefixes
                 IN  /\ log' = [log EXCEPT ![p] = Append(@, ev)]
                     /\ IF run.ret # 0 THEN BuildFailed(p, ev, pfx)
                        ELSE BuildDone(p, ev, pfx)
    /\ UNCHANGED <<catalog, target, ndeps, prev, nruns, fs0, fn_in, fn_out>>

(***************************************************************************)
(* Package.uninstall_version, Package.uninstall, uninstall()                *)
(***************************************************************************)
\* the axis variable a tuple of build_deps is assigned to; module is the
\* argument of uninstall_version, pmodule the module of the tuple
UninstallBranch(module, pmodule) ==
    IF pmodule = "Compiler" THEN "compiler"
    ELSE IF pmodule = "MPI" THEN "mpi"
    ELSE IF module = "Boost" THEN "boost"
    ELSE IF module = "CUDA" THEN "cuda"
    ELSE IF module = "Python" THEN "python"
    ELSE ""

\* compiler, mpi, boost, cuda, python after the loop over build_deps (the
\* last assignment stays), with extract_versions applied
UninstallAxes(cat, module, self) ==
    LET ts == Flatten(build_deps(cat, self))
        hits(a) == {i \in 1..Len(ts) : UninstallBranch(module, ts[i].module) = a}
    IN  [a \in AxisKeys |->
            IF hits(a) = {} THEN [k |-> "tuple", p |-> "", v |-> <<"*">>]
            ELSE LET i == CHOOSE j \in hits(a) : \A h \in hits(a) : h <= j
                 IN  [k |-> "tuple", p |-> ts[i].package,
                      v |-> versions(cat, ts[i].package)]]

\* the body of the innermost loop; st holds the two trees, what was removed,
\* and whether os.remove has raised
UninstallPoint(st, cat, arch, self, version, d) ==
    IF ~st.ok \/ prefix(cat, arch, self, version, d) \notin st.prefixes THEN st
    ELSE IF Pointer(cat, arch, self, version, d) \notin DOMAIN st.files
    THEN [st EXCEPT !.prefixes = @ \ {prefix(cat, arch, self, version, d)},
                    !.ok = FALSE]
    ELSE [st EXCEPT !.prefixes = @ \ {prefix(cat, arch, self, version, d)},
                    !.files = [q \in DOMAIN @ \ {Pointer(cat, arch, self, version, d)}
                                 |-> @[q]],
                    !.removed = Append(@, [op |-> "removed", self |-> self,
                                           key |-> prefix(cat, arch, self, version, d)])]

RECURSIVE UninstallLoops(_, _, _, _, _, _, _, _)
UninstallLoops(st, cat, arch, self, version, ax, pts, i) ==
    IF i > Len(pts) THEN st
    ELSE UninstallLoops(UninstallPoint(st, cat, arch, self, version,
                                       SetAxes(<<>>, ax, pts[i], 1)),
                        cat, arch, self, version, ax, pts, i + 1)

\* for arch in architectures: the five nested loops
RECURSIVE uninstall_version(_, _, _, _, _, _)
uninstall_version(st, cat, module, self, version, i) ==
    IF i > Len(architectures) THEN st
    ELSE LET ax == UninstallAxes(cat, module, self)
         IN  uninstall_version(
                 UninstallLoops(st, cat, architectures[i], self, version, ax,
                                Points(ax), 1),
                 cat, module, self, version, i + 1)

\* the calls of uninstall_version a run makes, in order
UninstallTodo(cat, archs, tgt) ==
    LET all(module, self) ==
            [i \in 1..Len(cat.pkg[self].versions) |->
                [module |-> module, self |-> self,
                 version |-> Head(cat.pkg[self].versions[i])]]
        once == IF tgt = <<"all">>
                THEN Flatten([i \in 1..Len(cat.dirs) |->
                        Flatten([j \in 1..Len(cat.dirs[i].names) |->
                                    all(cat.dirs[i].module, cat.dirs[i].names[j])])])
                ELSE LET f == find_package(cat, tgt)
                     IN  IF ~IsPackage(f.package) THEN <<>>
                         ELSE IF f.version # "*"
                         THEN <<[module |-> f.module, self |-> f.package,
                                 version |-> Head(LookupVersion(cat, f.package,
                                                                f.version))]>>
                         ELSE all(f.module, f.package)
    IN  Flatten([i \in 1..Len(archs) |-> once])

RECURSIVE UninstallAll(_, _, _)
UninstallAll(st, cat, items) ==
    IF items = <<>> THEN st
    ELSE UninstallAll(uninstall_version(st, cat, Head(items).module, Head(items).self,
                                        Head(items).version, 1),
                      cat, Tail(items))

\* main() with --uninstall: load_packages, then uninstall(basepath, targets, arch)
Uninstall(p) ==
    /\ status[p] \notin {"off", "running"}
    /\ nruns < MaxRuns
    /\ \E tgt \in Cat.targets, arch \in ArchArgs :
        /\ nruns' = nruns + 1
        /\ target' = [target EXCEPT ![p] = tgt]
        /\ prev' = [prev EXCEPT ![p] =
                      IF status[p] = "idle" THEN <<>>
                      ELSE <<[target |-> target[p], status |-> status[p],
                              log |-> log[p]]>>]
        /\ ndeps' = [ndeps EXCEPT ![p] = 0]
        /\ fs0' = [fs0 EXCEPT ![p] = [prefixes |-> prefixes,
                                       modulefiles |-> modulefiles]]
        /\ \E st \in {UninstallAll([prefixes |-> prefixes, files |-> modulefiles,
                                    removed |-> <<>>, ok |-> TRUE], Cat,
                                   UninstallTodo(Cat, IF arch = "all" THEN architectures
                                                      ELSE <<arch>>, tgt))} :
            IF arch # "all" /\ arch \notin Range(architectures)
            THEN /\ Raise(p)
                 /\ log' = [log EXCEPT ![p] = <<[op |-> "uninstall"]>>]
                 /\ UNCHANGED <<prefixes, modulefiles>>
            ELSE IF tgt # <<"all">> /\ ~IsPackage(find_package(Cat, tgt).package)
            THEN /\ Finish(p, "failed", 1)
                 /\ log' = [log EXCEPT ![p] = <<[op |-> "uninstall"]>>]
                 /\ UNCHANGED <<prefixes, modulefiles>>
            ELSE /\ IF st.ok THEN Finish(p, "done", 0) ELSE Raise(p)
                 /\ log' = [log EXCEPT ![p] = <<[op |-> "uninstall"]>> \o st.removed]
                 /\ prefixes' = st.prefixes
                 /\ modulefiles' = st.files
    /\ UNCHANGED <<catalog, fn_in, fn_out>>

(***************************************************************************)
(* The orchestrator: runs of main() on one package directory                *)
(***************************************************************************)
NoInput == [kind |-> "none"]

Init ==
    /\ catalog \in 1..Len(PackageFiles)
    /\ prefixes = {}
    /\ modulefiles = <<>>
    /\ status = [p \in Procs |-> IF p = 1 THEN "idle" ELSE "off"]
    /\ exitcode = [p \in Procs |-> 0]
    /\ stack = [p \in Procs |-> <<>>]
    /\ todo = [p \in Procs |-> <<>>]
    /\ target = [p \in Procs |-> <<>>]
    /\ log = [p \in Procs |-> <<>>]
    /\ ndeps = [p \in Procs |-> 0]
    /\ prev = [p \in Procs |-> <<>>]
    /\ nruns = 0
    /\ fs0 = [p \in Procs |-> [prefixes |-> {}, modulefiles |-> <<>>]]
    /\ fn_in = NoInput
    /\ fn_out = <<>>

Next ==
    \E p \in Procs :
        \/ Main(p)
        \/ ProcessResolution(p)
        \/ CheckInstalled(p)
        \/ CallDep(p)
        \/ Build(p)
        \/ Return(p)

Spec == Init /\ [][Next]_vars

\* runs of main() with --install and with --uninstall on one basepath
NextUn == Next \/ \E p \in Procs : Uninstall(p)

SpecUn == Init /\ [][NextUn]_vars

\* the interpreter goes on executing a running process, and every fetch,
\* extraction and build shell ends
Step ==
    \E p \in Procs :
        ProcessResolution(p) \/ CheckInstalled(p) \/ CallDep(p) \/ Build(p) \/ Return(p)

InitLive == Init /\ catalog \in {1, Len(PackageFiles)}

SpecLive == InitLive /\ [][Next]_vars /\ WF_vars(Step)

(***************************************************************************)
(* Two orchestrator processes on one basepath: main() started twice, the    *)
(* steps of the two processes interleaved.                                  *)
(***************************************************************************)
InitRace ==
    /\ catalog = 1
    /\ prefixes = {}
    /\ modulefiles = <<>>
    /\ status = [p \in Procs |-> "idle"]
    /\ exitcode = [p \in Procs |-> 0]
    /\ stack = [p \in Procs |-> <<>>]
    /\ todo = [p \in Procs |-> <<>>]
    /\ target = [p \in Procs |-> <<>>]
    /\ log = [p \in Procs |-> <<>>]
    /\ ndeps = [p \in Procs |-> 0]
    /\ prev = [p \in Procs |-> <<>>]
    /\ nruns = 0
    /\ fs0 = [p \in Procs |-> [prefixes |-> {}, modulefiles |-> <<>>]]
    /\ fn_in = NoInput
    /\ fn_out = <<>>

SpecRace == InitRace /\ [][Next]_vars

(***************************************************************************)
(* Functions applied in isolation: the resolver on drawn declarations, and *)
(* prefix on drawn axis assignments                                         *)
(***************************************************************************)
DeclAlphabet ==
    {Dep(<<"Compiler">>), Opt(<<"Compiler">>), Dep(<<"MPI">>), Opt(<<"MPI">>),
     Opt(<<"CUDA">>), Dep(<<"A", "1.0">>), Opt(<<"A", "1.0">>), Dep(<<"D", "1">>),
     Opt(<<"D", "1">>), Dep(<<"A">>), Dep(<<"zzz">>), Opt(<<"zzz">>),
     Dep(<<"A", "9">>), Dep(<<"gcc">>), Dep(<<"gcc", "4">>)}

DeclSeqs == UNION {[1..n -> DeclAlphabet] : n \in 0..MaxDecls}

\* the values an axis of a drawn assignment may hold
AxisValues(a) ==
    CASE a = "compiler" -> {[k |-> "tuple", p |-> "gcc", v |-> <<"5", "4">>],
                            [k |-> "tuple", p |-> "clang", v |-> <<"3">>]}
      [] a = "mpi" -> {[k |-> "tuple", p |-> "ompi", v |-> <<"1">>]}
      [] a = "cuda" -> {[k |-> "tuple", p |-> "cuda", v |-> <<"7">>]}
      [] a = "python" -> {[k |-> "tuple", p |-> "py", v |-> <<"2">>]}
      [] OTHER -> {[k |-> "tuple", p |-> "boost", v |-> <<"1">>]}

Orders(K) ==
    {o \in [1..Cardinality(K) -> K] : \A i, j \in 1..Cardinality(K) : o[i] = o[j] => i = j}

\* one assignment in insertion order o: axis o[i] holds the value m gives it
Assignment(o, m) == [i \in 1..Len(o) |-> [key |-> o[i], val |-> m[o[i]]]]

AssignmentMaps(K) ==
    {m \in [K -> UNION {AxisValues(a) : a \in AxisKeys}] :
        \A a \in K : m[a] \in AxisValues(a)}

\* the assignments install_version can reach in CatI: every axis absent or
\* holding one registered package of its module at one of its versions
PointsOf(cat) ==
    LET mod(a) == CHOOSE m \in ModuleSet : AxisKey(m) = a
        vals(a) == {[k |-> "tuple", p |-> n, v |-> <<w>>] :
                      <<n, w>> \in UNION {{n} \X Range(versions(cat, n)) :
                                            n \in Range(Registered(cat, mod(a)))}}
    IN  UNION {{Assignment(SelectSeq(PrefixAxes, LAMBDA a : a \in K), m) :
                  m \in {f \in [K -> UNION {vals(a) : a \in K}] :
                            \A a \in K : f[a] \in vals(a)}} :
               K \in SUBSET AxisKeys}

ResolveInputs ==
    {[kind |-> "resolve", decls |-> d, d1 |-> <<>>, d2 |-> <<>>] : d \in DeclSeqs}

ApplyResolve ==
    /\ fn_in.kind = "resolve" /\ fn_out = <<>>
    /\ fn_out' = <<get_deps(CatT(fn_in.decls), fn_in.decls)>>
    /\ UNCHANGED <<catalog, prefixes, modulefiles, status, exitcode, stack, todo,
                   target, log, ndeps, prev, nruns, fs0, fn_in>>

ApplyPrefix ==
    /\ fn_in.kind = "prefix" /\ fn_out = <<>>
    /\ fn_out' = <<[a |-> prefix(CatT(<<>>), "x86_64", "T", "1", fn_in.d1),
                    b |-> prefix(CatT(<<>>), "x86_64", "T", "1", fn_in.d2)]>>
    /\ UNCHANGED <<catalog, prefixes, modulefiles, status, exitcode, stack, todo,
                   target, log, ndeps, prev, nruns, fs0, fn_in>>

\* build lists of up to MaxSteps steps, with the exit code every command of
\* the shell would give
ShellInputs ==
    UNION {{[kind |-> "shell", decls |-> <<>>, d1 |-> <<>>, d2 |-> <<>>,
             steps |-> [i \in 1..n |-> "step"], rcs |-> r] :
               r \in [0..n -> 0..(MaxExit + 1)]} : n \in 0..MaxSteps}

ApplyShell ==
    /\ fn_in.kind = "shell" /\ fn_out = <<>>
    /\ fn_out' = <<ShellRun(fn_in.steps, fn_in.rcs)>>
    /\ UNCHANGED <<catalog, prefixes, modulefiles, status, exitcode, stack, todo,
                   target, log, ndeps, prev, nruns, fs0, fn_in>>

ApplyPaths ==
    /\ fn_in.kind = "paths" /\ fn_out = <<>>
    /\ fn_out' = <<[a |-> prefix(CatI, "x86_64", "T", "1", fn_in.d1),
                    b |-> prefix(CatI, "x86_64", "T", "1", fn_in.d2),
                    ma |-> BaseModuleDir(CatI, "x86_64", "T", fn_in.d1),
                    mb |-> BaseModuleDir(CatI, "x86_64", "T", fn_in.d2)]>>
    /\ UNCHANGED <<catalog, prefixes, modulefiles, status, exitcode, stack, todo,
                   target, log, ndeps, prev, nruns, fs0, fn_in>>

InitFn ==
    /\ catalog = 1
    /\ prefixes = {}
    /\ modulefiles = <<>>
    /\ status = [p \in Procs |-> "off"]
    /\ exitcode = [p \in Procs |-> 0]
    /\ stack = [p \in Procs |-> <<>>]
    /\ todo = [p \in Procs |-> <<>>]
    /\ target = [p \in Procs |-> <<>>]
    /\ log = [p \in Procs |-> <<>>]
    /\ ndeps = [p \in Procs |-> 0]
    /\ prev = [p \in Procs |-> <<>>]
    /\ nruns = 0
    /\ fs0 = [p \in Procs |-> [prefixes |-> {}, modulefiles |-> <<>>]]
    /\ \/ fn_in \in ResolveInputs
       \/ fn_in \in ShellInputs
       \/ \E x \in PointsOf(CatI), y \in PointsOf(CatI) :
            fn_in = [kind |-> "paths", decls |-> <<>>, d1 |-> x, d2 |-> y]
       \/ \E K \in SUBSET AxisKeys :
            \E m \in AssignmentMaps(K) :
              \E o1 \in Orders(K), o2 \in Orders(K) :
                fn_in = [kind |-> "prefix", decls |-> <<>>,
                         d1 |-> Assignment(o1, m), d2 |-> Assignment(o2, m)]
    /\ fn_out = <<>>

NextFn == ApplyResolve \/ ApplyPrefix \/ ApplyPaths \/ ApplyShell

SpecFn == InitFn /\ [][NextFn]_vars

(***************************************************************************)
(* Vocabulary of the claims                                                 *)
(***************************************************************************)
Last(s) == s[Len(s)]

\* every build shell of the log exited zero and left its prefix in place
AllCreated(l) == \A i \in 1..Len(l) : l[i].ret = 0 /\ l[i].created

\* the current run of p repeats the arguments of its previous run
Repeat(p) == prev[p] # <<>> /\ prev[p][1].target = target[p]

SameTrees(p) == prefixes = fs0[p].prefixes /\ modulefiles = fs0[p].modulefiles

\* no prefix is the target of two build shells of the two logs
BuiltOnce(l) == \A i, j \in 1..Len(l) : l[i].key = l[j].key => i = j

Failure(p) == \E i \in 1..Len(log[p]) : log[p][i].ret # 0

\* the ordinary declarations that find_package resolves, in declaration order
RECURSIVE Resolvable(_, _, _)
Resolvable(cat, decls, optional) ==
    IF decls = <<>> THEN <<>>
    ELSE (IF /\ ~IsAxisDecl(Head(decls))
             /\ Head(decls).opt = optional
             /\ find_package(cat, Head(decls).parts).package # ""
          THEN <<find_package(cat, Head(decls).parts)>> ELSE <<>>)
         \o Resolvable(cat, Tail(decls), optional)

Resolved == fn_in.kind = "resolve" /\ fn_out # <<>>

NoAxisDecl(decls) == \A i \in 1..Len(decls) : ~IsAxisDecl(decls[i])

NoOptionalDecl(decls) == \A i \in 1..Len(decls) : ~decls[i].opt

\* an axis assignment as a map: axis -> <<package, version>>
AsMap(d) == [a \in DictKeys(d) |-> <<DictGet(d, a).p, DictGet(d, a).v[1]>>]

(***************************************************************************)
(* C1. Idempotence of Install.                                              *)
(***************************************************************************)
\* C1 as claimed: whenever a run repeats the arguments of the run before it,
\* it executes no build step, installs no dependency and changes neither
\* tree, and no target is built twice in the two runs together.
C1_Original ==
    \A p \in Procs :
        Repeat(p) =>
            /\ log[p] = <<>>
            /\ ndeps[p] = 0
            /\ SameTrees(p)
            /\ BuiltOnce(prev[p][1].log \o log[p])

\* C1 as amended: the same, for a first run that returned normally and whose
\* build shells each left their prefix in place.
C1_Idempotent ==
    \A p \in Procs :
        (Repeat(p) /\ prev[p][1].status = "done" /\ AllCreated(prev[p][1].log)) =>
            /\ log[p] = <<>>
            /\ ndeps[p] = 0
            /\ SameTrees(p)
            /\ BuiltOnce(prev[p][1].log \o log[p])

C1_Witness ==
    /\ Repeat(1) /\ status[1] = "done"
    /\ prev[1][1].status = "done" /\ AllCreated(prev[1][1].log)
    /\ Len(prev[1][1].log) >= 2

(***************************************************************************)
(* C2. Rollback on build failure: a build shell that exited nonzero is the  *)
(* last one of its run, its prefix is absent whether or not the build had   *)
(* created it, and the run has ended with a nonzero status.                 *)
(***************************************************************************)
C2_Rollback ==
    \A p \in Procs :
        \A i \in 1..Len(log[p]) :
            log[p][i].ret # 0 =>
                /\ i = Len(log[p])
                /\ status[p] = "failed"
                /\ exitcode[p] # 0
                /\ log[p][i].key \notin prefixes

C2_Witness ==
    /\ status[1] = "failed" /\ log[1] # <<>>
    /\ Last(log[1]).ret # 0 /\ Last(log[1]).created

(***************************************************************************)
(* C3. Whole-run abort: once a build shell of a run has exited nonzero, no  *)
(* step of that run starts a build shell, installs a dependency, writes a   *)
(* module file or touches a prefix; the next thing to happen is a new run.  *)
(***************************************************************************)
C3_Abort ==
    [][\A p \in Procs :
          Failure(p) =>
              \/ nruns' > nruns
              \/ /\ log'[p] = log[p]
                 /\ ndeps'[p] = ndeps[p]
                 /\ stack'[p] = stack[p]
                 /\ modulefiles' = modulefiles
                 /\ prefixes' = prefixes]_vars

\* a dependency's build failed while its caller still had work to do
C3_Witness ==
    /\ status[1] = "failed" /\ log[1] # <<>>
    /\ Last(log[1]).ret # 0 /\ Last(log[1]).depth > 1

(***************************************************************************)
(* C4. Dependencies first: in the first run, on empty trees, Install(B)     *)
(* starts B's build shell only after A/1.0's build shell exited zero; when   *)
(* the run is done and the builds left their prefixes, both prefixes, both  *)
(* base modules and both version pointers exist.                            *)
(***************************************************************************)
C4_Scenario == Cat = CatAB /\ target[1] = <<"B">> /\ prev[1] = <<>>

C4_Root == <<<<"opt">>, <<"x86_64">>>>

C4_Core == C4_Root \o <<<<"modulefiles">>, <<"Core">>>>

C4_DepsFirst ==
    C4_Scenario =>
        /\ \A i \in 1..Len(log[1]) :
              log[1][i].self = "B" =>
                  \E j \in 1..(i - 1) :
                      /\ log[1][j].self = "A" /\ log[1][j].version = "1.0"
                      /\ log[1][j].ret = 0
        /\ (status[1] = "done" /\ AllCreated(log[1])) =>
              /\ C4_Root \o <<<<"A">>, <<"1.0">>>> \in prefixes
              /\ C4_Root \o <<<<"B">>, <<"2.0">>>> \in prefixes
              /\ {C4_Core \o <<<<".base">>, <<"A">>, <<"generic.lua">>>>,
                  C4_Core \o <<<<".base">>, <<"B">>, <<"generic.lua">>>>,
                  C4_Core \o <<<<"A">>, <<"1.0", ".lua">>>>,
                  C4_Core \o <<<<"B">>, <<"2.0", ".lua">>>>} \subseteq DOMAIN modulefiles

C4_Witness ==
    /\ C4_Scenario /\ status[1] = "done" /\ AllCreated(log[1]) /\ Len(log[1]) = 2

(***************************************************************************)
(* C5. Per-compiler installs: a run Install(C, 1.0) that is done and whose  *)
(* build shells left their prefixes leaves one prefix                       *)
(* basepath/arch/<compiler>-<v>/C/1.0 per registered compiler and version,  *)
(* all distinct.                                                            *)
(***************************************************************************)
C5_Expected ==
    {C4_Root \o <<<<c, "-", v>>, <<"C">>, <<"1.0">>>> :
        <<c, v>> \in {<<"gcc", "4">>, <<"gcc", "5">>, <<"clang", "3">>}}

C5_PerCompiler ==
    \A p \in Procs :
        (Cat = CatC /\ target[p] = <<"C", "1.0">> /\ status[p] = "done"
         /\ AllCreated(log[p])) =>
            /\ C5_Expected \subseteq prefixes
            /\ Cardinality(C5_Expected) = 3

C5_Witness ==
    /\ Cat = CatC /\ target[1] = <<"C", "1.0">> /\ status[1] = "done"
    /\ AllCreated(log[1]) /\ Len(log[1]) = 6

(***************************************************************************)
(* C6. Cartesian expansion per Resolution, as claimed: the assignments the  *)
(* loops of a Resolution visit are exactly the product of the version lists *)
(* of the axes that occur in that Resolution (a pinned axis contributing    *)
(* its pinned version), over exactly those axes.                            *)
(***************************************************************************)
C6_FrameOk(f) ==
    LET res == build_deps(Cat, f.self)[f.ri]
        axes == {AxisKey(res[i].module) : i \in 1..Len(res)} \ {""}
        last(a) == res[CHOOSE i \in 1..Len(res) :
                          /\ AxisKey(res[i].module) = a
                          /\ \A j \in (i + 1)..Len(res) : AxisKey(res[j].module) # a]
        choices(a) ==
            IF DictHas(f.ext, a)
            THEN {<<DictGet(f.ext, a).p, DictGet(f.ext, a).v[1]>>}
            ELSE {<<last(a).package, v>> : v \in Range(versions(Cat, last(a).package))}
        visited == {AsMap(SetAxes(f.rext, f.ax, f.pts[i], 1)) : i \in 1..Len(f.pts)}
    IN  visited = {m \in [axes -> UNION {choices(a) : a \in axes}] :
                      \A a \in axes : m[a] \in choices(a)}

C6_Original ==
    \A p \in Procs :
        \A i \in 1..Len(stack[p]) :
            stack[p][i].pc \in {"point", "deps", "build"} => C6_FrameOk(stack[p][i])

(***************************************************************************)
(* C7. Prefix determinism: two insertion orders of one assignment give the  *)
(* same path, and the path is basepath, arch, the present axes in the order *)
(* compiler, mpi, cuda, python, boost, then name and version.               *)
(***************************************************************************)
C7_Dir(d, a) ==
    IF a \in DictKeys(d) THEN <<<<AsMap(d)[a][1], "-", AsMap(d)[a][2]>>>> ELSE <<>>

C7_Prefix ==
    (fn_in.kind = "prefix" /\ fn_out # <<>>) =>
        /\ fn_out[1].a = fn_out[1].b
        /\ fn_out[1].a =
              <<<<"opt">>, <<"x86_64">>>>
              \o C7_Dir(fn_in.d1, "compiler") \o C7_Dir(fn_in.d1, "mpi")
              \o C7_Dir(fn_in.d1, "cuda") \o C7_Dir(fn_in.d1, "python")
              \o C7_Dir(fn_in.d1, "boost") \o <<<<"T">>, <<"1">>>>

C7_Witness ==
    /\ fn_in.kind = "prefix" /\ fn_out # <<>>
    /\ Len(fn_in.d1) = 5 /\ fn_in.d1 # fn_in.d2
    /\ fn_in.d1[1].key = "boost"

(***************************************************************************)
(* C8. Resolver, mandatory axis: a package that declares the Compiler axis  *)
(* once, mandatory, and otherwise only mandatory ordinary dependencies, with *)
(* two compilers registered, gets exactly two Resolutions, one headed by    *)
(* each compiler with the wildcard version, equal in all other tuples.      *)
(***************************************************************************)
C8_Case(decls) ==
    /\ Cardinality({i \in 1..Len(decls) : IsAxisDecl(decls[i])}) = 1
    /\ \E i \in 1..Len(decls) : decls[i] = Dep(<<"Compiler">>)
    /\ NoOptionalDecl(decls)
    /\ Len(Registered(CatT(decls), "Compiler")) = 2

C9_Optional ==
    (Resolved /\ NoAxisDecl(fn_in.decls)) =>
        LET r == fn_out[1]
            base == Resolvable(CatT(fn_in.decls), fn_in.decls, FALSE)
            opts == Resolvable(CatT(fn_in.decls), fn_in.decls, TRUE)
        IN  /\ Len(r) = 1 + Len(opts)
            /\ r[1] = base
            /\ \A i \in 1..Len(opts) :
                  /\ Range(r[i + 1]) = Range(base) \cup {opts[i]}
                  /\ Len(r[i + 1]) = Len(base) + 1
            /\ \A j \in 1..Len(r) :
                  /\ Range(base) \subseteq Range(r[j])
                  /\ Len(r[j]) <= Len(base) + 1

C9_Witness ==
    /\ Resolved /\ NoAxisDecl(fn_in.decls)
    /\ Len(Resolvable(CatT(fn_in.decls), fn_in.decls, TRUE)) = 2
    /\ Len(Resolvable(CatT(fn_in.decls), fn_in.decls, FALSE)) = 1

(***************************************************************************)
(* C10. Resolver, base case: with no axis and no optional declaration there *)
(* is exactly one Resolution, holding the resolvable mandatory ordinary     *)
(* dependencies in declaration order.                                       *)
(***************************************************************************)
C10_BaseCase ==
    (Resolved /\ NoAxisDecl(fn_in.decls) /\ NoOptionalDecl(fn_in.decls)) =>
        fn_out[1] = <<Resolvable(CatT(fn_in.decls), fn_in.decls, FALSE)>>

C10_Witness ==
    /\ Resolved /\ NoAxisDecl(fn_in.decls) /\ NoOptionalDecl(fn_in.decls)
    /\ Len(fn_in.decls) = 3
    /\ Len(fn_out[1][1]) = 2
    /\ fn_out[1][1][1] # fn_out[1][1][2]

(***************************************************************************)
(* C11. Resolution completeness, as claimed: every returned Resolution      *)
(* holds every resolvable mandatory ordinary dependency and, for each axis  *)
(* the package declares as mandatory, exactly one tuple of that axis, its   *)
(* package registered under the axis.                                       *)
(***************************************************************************)
C11_MandatoryAxes(decls) ==
    {decls[i].parts[1] : i \in {j \in 1..Len(decls) : IsAxisDecl(decls[j]) /\ ~decls[j].opt}}

C11_Original ==
    Resolved =>
        \A n \in 1..Len(fn_out[1]) :
            LET r == fn_out[1][n]
                cat == CatT(fn_in.decls)
            IN  /\ Range(Resolvable(cat, fn_in.decls, FALSE)) \subseteq Range(r)
                /\ \A M \in C11_MandatoryAxes(fn_in.decls) :
                      /\ Cardinality({i \in 1..Len(r) : r[i].module = M}) = 1
                      /\ \A i \in 1..Len(r) :
                            r[i].module = M => r[i].package \in Range(Registered(cat, M))

(***************************************************************************)
(* C12. Wildcard rejection, as claimed: a package one of whose ordinary     *)
(* declarations, mandatory or optional, carries the wildcard version never  *)
(* has a build shell started for it and never has install_version called    *)
(* for one of its dependencies.                                             *)
(***************************************************************************)
C12_Wildcard(cat, self) ==
    \E i \in 1..Len(cat.pkg[self].dependencies) :
        LET d == cat.pkg[self].dependencies[i]
        IN  /\ ~IsAxisDecl(d)
            /\ Len(d.parts) = 1
            /\ find_package(cat, d.parts).package # ""

C12_Original ==
    \A p \in Procs :
        /\ \A i \in 1..Len(log[p]) : ~C12_Wildcard(Cat, log[p][i].self)
        /\ \A i \in 1..(Len(stack[p]) - 1) : ~C12_Wildcard(Cat, stack[p][i].self)

(***************************************************************************)
(* C13. Module files are write-once: no step removes a file of the          *)
(* module-file tree or changes what it holds, be it a base module or a      *)
(* version pointer, whatever the later install would have written.          *)
(***************************************************************************)
C13_WriteOnce ==
    [][\A q \in DOMAIN modulefiles :
          q \in DOMAIN modulefiles' /\ modulefiles'[q] = modulefiles[q]]_vars

\* F was built twice in one run, under two Resolutions with different
\* ordinary dependencies, and its base module still holds the first list
C13_Witness ==
    /\ Cat = CatF
    /\ \E i, j \in 1..Len(log[1]) :
          /\ i < j /\ log[1][i].self = "F" /\ log[1][j].self = "F"
          /\ log[1][i].ret = 0 /\ log[1][j].ret = 0
          /\ log[1][i].ri # log[1][j].ri
          /\ BaseModule(Cat, "x86_64", "F", <<>>) \in DOMAIN modulefiles
          /\ modulefiles[BaseModule(Cat, "x86_64", "F", <<>>)].loads = <<<<"A", "1.0">>>>

(***************************************************************************)
(* C14. Module hierarchy mirrors prefix hierarchy, as claimed: for one      *)
(* package, architecture and version, two axis assignments give the same    *)
(* base-module directory exactly when they give the same install prefix.    *)
(***************************************************************************)
C14_Original ==
    (fn_in.kind = "paths" /\ fn_out # <<>>) =>
        ((fn_out[1].ma = fn_out[1].mb) <=> (fn_out[1].a = fn_out[1].b))

(***************************************************************************)
(* C15. Acknowledged race: the prefix-existence check of a process looks at *)
(* the prefix tree alone; whatever the other process is doing, the process  *)
(* goes on to install the point exactly when the prefix does not exist at   *)
(* the moment of the check.                                                 *)
(***************************************************************************)
C15_Key(f) == prefix(Cat, f.arch, f.self, Head(f.version), RextAt(f))

C15_NoExclusion ==
    [][\A p \in Procs :
          (Running(p, "point") /\ stack'[p] # stack[p]) =>
              ((stack'[p][Len(stack[p])].pc \in {"deps", "build"})
                  <=> (C15_Key(Top(p)) \notin prefixes))]_vars

\* both processes ran the build of one prefix; the one that failed last
\* removed the prefix the other had built and left in place
C15_Witness ==
    \E i \in 1..Len(log[1]), j \in 1..Len(log[2]) :
        /\ log[1][i].key = log[2][j].key
        /\ log[1][i].ret = 0 /\ log[1][i].created
        /\ log[2][j].ret # 0
        /\ log[1][i].key \notin prefixes
        /\ prev[1] = <<>> /\ prev[2] = <<>>

(***************************************************************************)
(* C16. Axis pinning: while install_version of a dependency runs inside the *)
(* install_version of its parent, at every point of every Resolution of the *)
(* dependency its axis assignment holds, for each axis the parent's         *)
(* assignment has too, the parent's package and version.                    *)
(***************************************************************************)
C16_Pinned ==
    \A p \in Procs :
        \A i \in 2..Len(stack[p]) :
            LET parent == stack[p][i - 1]
                child == stack[p][i]
            IN  child.pc \in {"point", "deps", "build"} =>
                    \A a \in DictKeys(RextAt(child)) \cap DictKeys(parent.rext) :
                        DictGet(RextAt(child), a) = DictGet(parent.rext, a)

\* a dependency about to be built under the parent's compiler while the
\* Resolution being processed names the other compiler
C16_Witness ==
    \E i \in 2..Len(stack[1]) :
        LET child == stack[1][i]
        IN  /\ child.pc = "build"
            /\ DictHas(child.rext, "compiler")
            /\ DictGet(child.rext, "compiler") = DictGet(stack[1][i - 1].rext, "compiler")
            /\ build_deps(Cat, child.self)[child.ri][1].module = "Compiler"
            /\ build_deps(Cat, child.self)[child.ri][1].package
                  # DictGet(child.rext, "compiler").p

(***************************************************************************)
(* C17. Resolver, optional axis dependencies, as claimed: the returned list *)
(* is what is left after the optional-axis candidates were taken one after  *)
(* another, each appending, for every Resolution of the list as it stood    *)
(* at that moment, a copy with the candidate prepended.                     *)
(***************************************************************************)
RECURSIVE C17_Duplicated(_, _)
C17_Duplicated(cands, list) ==
    IF cands = <<>> THEN list
    ELSE C17_Duplicated(Tail(cands),
            list \o [j \in 1..Len(list) |-> <<Head(cands)>> \o list[j]])

C17_Original ==
    Resolved =>
        LET cat == CatT(fn_in.decls)
            built == res_deps(module_deps(cat, fn_in.decls), deps(cat, fn_in.decls),
                              ddeps(optional_deps(cat, fn_in.decls),
                                    deps(cat, fn_in.decls)))
        IN  fn_out[1] = C17_Duplicated(optional_module_deps(cat, fn_in.decls), built)

(***************************************************************************)
(* C18. Unresolved dependencies are dropped: an ordinary declaration whose  *)
(* name is registered nowhere, or whose version the named package does not  *)
(* have, yields no tuple in any returned Resolution, and the Resolutions    *)
(* are those of the declarations without it.                                *)
(***************************************************************************)
C18_Unresolved(cat, d) ==
    /\ ~IsAxisDecl(d)
    /\ \/ \A i \in 1..Len(cat.dirs) : d.parts[1] \notin Range(cat.dirs[i].names)
       \/ /\ Len(d.parts) = 2
          /\ d.parts[2] # "*"
          /\ d.parts[2] \notin Range(versions(cat, d.parts[1]))

C18_Dropped ==
    Resolved =>
        LET cat == CatT(fn_in.decls)
            kept == SelectSeq(fn_in.decls, LAMBDA d : ~C18_Unresolved(cat, d))
        IN  /\ fn_out[1] = get_deps(cat, kept)
            /\ \A n \in 1..Len(fn_out[1]) :
                  \A i \in 1..Len(fn_out[1][n]) :
                      LET t == fn_out[1][n][i]
                      IN  /\ t.package # ""
                          /\ \A j \in 1..Len(fn_in.decls) :
                                C18_Unresolved(cat, fn_in.decls[j]) =>
                                    ~(/\ t.package = fn_in.decls[j].parts[1]
                                      /\ t.version = (IF Len(fn_in.decls[j].parts) = 2
                                                      THEN fn_in.decls[j].parts[2]
                                                      ELSE "*"))

\* an unknown name and an unknown version next to a dependency that resolves
C18_Witness ==
    /\ Resolved
    /\ \E i, j \in 1..Len(fn_in.decls) :
          /\ fn_in.decls[i].parts = <<"zzz">>
          /\ fn_in.decls[j].parts = <<"A", "9">>
    /\ Len(fn_out[1][1]) = 1

(***************************************************************************)
(* C19. Module-load list, as claimed: when the build shell of a point is    *)
(* about to be started, the module-load lines are, in call order, one       *)
(* <name>/<version> per dependency of the point, <name> being the name of   *)
(* that dependency's own package.                                           *)
(***************************************************************************)
C19_Original ==
    \A p \in Procs :
        \A i \in 1..Len(stack[p]) :
            LET f == stack[p][i]
            IN  f.pc = "build" =>
                    f.mods = [n \in 1..Len(DepCalls(f)) |->
                                <<name(Cat, DepCalls(f)[n].package),
                                  DepCalls(f)[n].version>>]

(***************************************************************************)
(* C20. Strict sequential build: the steps that run are an initial part of  *)
(* the declared ones, in order; step i runs exactly when 'module list' and  *)
(* every step before it exited zero; the shell's exit code is the first     *)
(* nonzero exit code, and zero when there is none.                          *)
(***************************************************************************)
C20_Sequential ==
    (fn_in.kind = "shell" /\ fn_out # <<>>) =>
        LET run == fn_out[1]
            n == Len(fn_in.steps)
            rcs == fn_in.rcs
            ran == {i \in 0..n : \A j \in 0..(i - 1) : rcs[j] = 0}
            bad == {i \in ran : rcs[i] # 0}
        IN  /\ run.executed = [i \in 1..Len(run.executed) |-> i]
            /\ \A i \in 1..n : (i \in Range(run.executed)) <=> (i \in ran)
            /\ \A i \in bad : run.ret = rcs[i]
            /\ (run.ret = 0) <=> (\A i \in 0..n : rcs[i] = 0)

\* the second of three steps exits 2: the third does not run, the shell exits 2
C20_Witness ==
    /\ fn_in.kind = "shell" /\ fn_out # <<>>
    /\ Len(fn_in.steps) = 3
    /\ fn_in.rcs[0] = 0 /\ fn_in.rcs[1] = 0 /\ fn_in.rcs[2] = 2 /\ fn_in.rcs[3] = 0
    /\ fn_out[1].executed = <<1, 2>> /\ fn_out[1].ret = 2

(***************************************************************************)
(* C21. Axis signature format, as claimed: the signature is the             *)
(* name-version strings of the present axes in the order compiler, cuda,    *)
(* mpi, python, boost with the separator only between consecutive entries;  *)
(* it is empty exactly when no axis is present, and then the base module    *)
(* lies under Core.                                                         *)
(***************************************************************************)
C21_Order == <<"compiler", "cuda", "mpi", "python", "boost">>

RECURSIVE C21_Join(_)
C21_Join(dirs) ==
    IF dirs = <<>> THEN <<>>
    ELSE IF Len(dirs) = 1 THEN Head(dirs)
    ELSE Head(dirs) \o <<"-">> \o C21_Join(Tail(dirs))

C21_Signature(d) ==
    C21_Join([i \in 1..Len(SelectSeq(C21_Order, LAMBDA a : a \in DictKeys(d))) |->
        LET a == SelectSeq(C21_Order, LAMBDA b : b \in DictKeys(d))[i]
        IN  <<AsMap(d)[a][1], "-", AsMap(d)[a][2]>>])

C21_Original ==
    (fn_in.kind = "paths" /\ fn_out # <<>>) =>
        /\ get_deps_path(CatI, fn_in.d1) = C21_Signature(fn_in.d1)
        /\ (get_deps_path(CatI, fn_in.d1) = <<>>) <=> (fn_in.d1 = <<>>)
        /\ fn_in.d1 = <<>> => fn_out[1].ma[4] = <<"Core">>
        /\ fn_in.d1 # <<>> => fn_out[1].ma[4] = C21_Signature(fn_in.d1)

(***************************************************************************)
(* C22. Search-path defaults are only extended, as claimed: every base      *)
(* module holds the guarded prepend of every default mapping, whatever the  *)
(* package's own path map declares.                                         *)
(***************************************************************************)
C22_Defaults(pkg) ==
    {<<"PATH", <<"bin">>>>, <<"LD_LIBRARY_PATH", <<"lib">>>>,
     <<"LD_LIBRARY_PATH", <<"lib64">>>>, <<"MANPATH", <<"share/man">>>>,
     <<"INFOPATH", <<"share/info">>>>, <<"PKG_CONFIG_PATH", <<"lib/pkgconfig">>>>,
     <<"PYTHONPATH", <<"share/", pkg, "/python">>>>}

C22_Original ==
    \A q \in DOMAIN modulefiles :
        modulefiles[q].kind = "base" =>
            C22_Defaults(modulefiles[q].pkg) \subseteq modulefiles[q].prepends

(***************************************************************************)
(* C23. Environment isolation: every install_version call, at any depth,    *)
(* holds as env the map Package.install made, unchanged for as long as the  *)
(* call lasts; the environment of every build shell is that map plus the    *)
(* variables of its own build only: its PACKAGE_VERSION, its SRC_DIR<i>,    *)
(* its BUILD_DIR and its PACKAGE_PREFIX.                                    *)
(***************************************************************************)
C23_Own(ev) ==
    {"PACKAGE_VERSION", "BUILD_DIR", "PACKAGE_PREFIX"}
    \cup {"SRC_DIR" \o ToString(i - 1) :
            i \in 1..(Len(LookupVersion(Cat, ev.self, ev.version)) - 1)}

C23_Isolated ==
    \A p \in Procs :
        /\ \A i \in 1..Len(stack[p]) : stack[p][i].env = InstallEnv
        /\ \A i \in 1..Len(log[p]) :
              LET ev == log[p][i]
              IN  /\ DictKeys(ev.env) = DictKeys(InstallEnv) \cup C23_Own(ev)
                  /\ \A k \in DictKeys(InstallEnv) :
                        DictGet(ev.env, k) = DictGet(InstallEnv, k)
                  /\ DictGet(ev.env, "PACKAGE_VERSION") = <<ev.version>>
                  /\ DictGet(ev.env, "PACKAGE_PREFIX") = ev.key
                  /\ DictGet(ev.env, "BUILD_DIR")[2] = Text(ev.self)
                  /\ \A k \in C23_Own(ev) \ {"PACKAGE_VERSION", "BUILD_DIR", "PACKAGE_PREFIX"} :
                        DictGet(ev.env, k)[2] = Text(ev.self)

\* a dependency was built, then its parent, and a second dependency call is
\* on the stack
C23_Witness ==
    /\ Len(log[1]) >= 2
    /\ log[1][1].depth = 2 /\ log[1][2].depth = 1
    /\ "SRC_DIR0" \in DictKeys(log[1][1].env)
    /\ "SRC_DIR0" \in DictKeys(log[1][2].env)
    /\ log[1][1].self # log[1][2].self

(***************************************************************************)
(* C24. Concrete-version axis tuple: when install_version processes a       *)
(* Resolution holding an axis tuple with a concrete version whose axis is   *)
(* not pinned by ext_deps, the process goes on running and the loops have   *)
(* exactly one point for that axis, with that version.                      *)
(***************************************************************************)
C24_Concrete(f) ==
    {t \in Range(build_deps(Cat, f.self)[f.ri]) :
        /\ AxisKey(t.module) # ""
        /\ t.version # "*"
        /\ ~DictHas(f.ext, AxisKey(t.module))}

C24_Original ==
    [][\A p \in Procs :
         (/\ Running(p, "res")
          /\ Top(p).ri <= Len(build_deps(Cat, Top(p).self))
          /\ C24_Concrete(Top(p)) # {}
          /\ ~RaisesWildcard(build_deps(Cat, Top(p).self)[Top(p).ri])
          /\ stack'[p] # stack[p])
         => /\ status'[p] = "running"
            /\ stack'[p] # <<>>
            /\ \A t \in C24_Concrete(Top(p)) :
                  stack'[p][Len(stack'[p])].ax[AxisKey(t.module)].v = <<t.version>>]_vars

(***************************************************************************)
(* C25. One build per key: once a build of the top-level install_version    *)
(* call has exited zero and left its prefix in place, the same call runs no *)
(* second build for that key; and when the package declares no axis, so     *)
(* that all its Resolutions have that key, the call builds nothing further, *)
(* not even the dependencies only a later Resolution names.                 *)
(***************************************************************************)
C25_NoAxis(self) ==
    \A r \in Range(build_deps(Cat, self)) : \A t \in Range(r) : AxisKey(t.module) = ""

C25_OnePerKey ==
    \A p \in Procs :
        \A i, j \in 1..Len(log[p]) :
            (/\ i < j
             /\ log[p][i].depth = 1
             /\ log[p][i].ret = 0 /\ log[p][i].created
             /\ log[p][j].pending = log[p][i].pending
             /\ log[p][j].key[2] = log[p][i].key[2])
            => /\ log[p][j].key # log[p][i].key
               /\ ~C25_NoAxis(log[p][i].self)

\* F's base Resolution built F and left the prefix; the run ended without
\* building D, which only F's second Resolution names
C25_Witness ==
    /\ target[1] = <<"F">> /\ status[1] = "done"
    /\ Len(build_deps(Cat, "F")) = 2
    /\ \E t \in Range(build_deps(Cat, "F")[2]) : t.package = "D"
    /\ \E i \in 1..Len(log[1]) :
          /\ log[1][i].self = "F" /\ log[1][i].ri = 1
          /\ log[1][i].ret = 0 /\ log[1][i].created
    /\ \A i \in 1..Len(log[1]) : log[1][i].self # "D"
    /\ \A q \in prefixes : q[Len(q) - 1] # Text("D")

(***************************************************************************)
(* C26. Termination: every run of main() that has started installing        *)
(* eventually returns or aborts by the program's own doing (the end of      *)
(* main(), exit(1), or an exception the program raises); the nesting of     *)
(* install_version calls never exhausts the interpreter's stack.            *)
(***************************************************************************)
C26_Original ==
    \A n \in 1..MaxRuns :
        (nruns = n /\ status[1] = "running")
        ~> (nruns = n /\ status[1] \in {"done", "failed", "crashed"})

(***************************************************************************)
(* C27. The module tree never runs ahead of the prefix tree: in every state *)
(* reachable by runs of Install and Uninstall, a version pointer exists     *)
(* only if the prefix of the same architecture, axis assignment, package    *)
(* and version exists.                                                      *)
(***************************************************************************)
C27_Original ==
    \A arch \in Range(architectures), self \in DOMAIN Cat.pkg, d \in PointsOf(Cat) :
        \A version \in Range(versions(Cat, self)) :
            Pointer(Cat, arch, self, version, d) \in DOMAIN modulefiles
            => prefix(Cat, arch, self, version, d) \in prefixes

(***************************************************************************)
(* C28. Install/uninstall round trip: when a run of Install that ended      *)
(* without failure is followed by a run of Uninstall of the same target     *)
(* that ended without failure, no prefix and no version pointer remains of  *)
(* any build of the target package that Install had made.                   *)
(***************************************************************************)
C28_RoundTrip(p) ==
    /\ status[p] = "done"
    /\ log[p] # <<>> /\ "op" \in DOMAIN log[p][1]
    /\ prev[p] # <<>>
    /\ prev[p][1].status = "done" /\ prev[p][1].target = target[p]
    /\ prev[p][1].log # <<>> /\ "ret" \in DOMAIN prev[p][1].log[1]
    /\ AllCreated(prev[p][1].log)

C28_Original ==
    \A p \in Procs :
        C28_RoundTrip(p)
        => \A i \in 1..Len(prev[p][1].log) :
              LET ev == prev[p][1].log[i]
              IN  ev.self = find_package(Cat, target[p]).package
                  => /\ ev.key \notin prefixes
                     /\ Pointer(Cat, ev.key[2][1], ev.self, ev.version, ev.rext)
                            \notin DOMAIN modulefiles

====
